---- MODULE Spec2Model ----
(***************************************************************************)
(* Reinvestment Promotion Builder (GACC-UY/promo2).                        *)
(*                                                                         *)
(* The three revisions of apply_reinvestment (src/app.py, src/app2.py,     *)
(* src/app3.py) as one state machine that takes one row of the table       *)
(* through the statements of the function in source order.  pandas applies *)
(* every statement to all rows at once and no statement reads another      *)
(* row, so one row stands for the table.                                   *)
(*                                                                         *)
(* Text is a sequence of one-character strings.  Money is an integer count *)
(* of thousandths (0.004 is 4), so that round(2) is a real operation;      *)
(* a percentage is an integer number of percent (pct_dict holds pct/100).  *)
(* The arithmetic is exact decimal arithmetic, not binary floating point.  *)
(***************************************************************************)
EXTENDS Integers, Sequences, FiniteSets, TLC

VARIABLES engine, pc, row, pct_dict, min_wallet, cap, country_caps, result, error,
          columns, table, kpis

vars == <<engine, pc, row, pct_dict, min_wallet, cap, country_caps, result, error,
          columns, table, kpis>>

\* what the upload and the KPI summary work on: the header list of the uploaded
\* frame, the returned table as a list of rows, the summary tables
around == <<columns, table, kpis>>

(***************************************************************************)
(* Text                                                                    *)
(***************************************************************************)
Lowers == <<"a","b","c","d","e","f","g","h","i","j","k","l","m",
            "n","o","p","q","r","s","t","u","v","w","x","y","z">>

Uppers == <<"A","B","C","D","E","F","G","H","I","J","K","L","M",
            "N","O","P","Q","R","S","T","U","V","W","X","Y","Z">>

Digits == {"0","1","2","3","4","5","6","7","8","9"}

Range(s) == {s[i] : i \in DOMAIN s}

IndexIn(c, s) == CHOOSE i \in DOMAIN s : s[i] = c

\* str.upper / str.lower, one character at a time
UpperChar(c) == IF c \in Range(Lowers) THEN Uppers[IndexIn(c, Lowers)] ELSE c

LowerChar(c) == IF c \in Range(Uppers) THEN Lowers[IndexIn(c, Uppers)] ELSE c

Upper(s) == [i \in DOMAIN s |-> UpperChar(s[i])]

Lower(s) == [i \in DOMAIN s |-> LowerChar(s[i])]

\* what Python's str.strip() and the regex class \s take for whitespace
IsSpace(c) == c \in {" ", "\t"}

\* the regex class [0-9A-Za-z_]
IsWord(c) == c \in Range(Lowers) \cup Range(Uppers) \cup Digits \cup {"_"}

RECURSIVE LStrip(_)
LStrip(s) == IF s # <<>> /\ IsSpace(Head(s)) THEN LStrip(Tail(s)) ELSE s

RECURSIVE RStrip(_)
RStrip(s) ==
    IF s # <<>> /\ IsSpace(s[Len(s)]) THEN RStrip(SubSeq(s, 1, Len(s) - 1)) ELSE s

\* str.strip()
Strip(s) == RStrip(LStrip(s))

\* unicodedata.normalize("NFKD", s) with the combining marks dropped: an
\* accented letter ("e'" is e with an acute accent) decomposes into its base
\* letter and a combining mark, and the mark is filtered out.
RECURSIVE Unaccent(_)
Unaccent(s) ==
    IF s = <<>> THEN <<>>
    ELSE LET c == Head(s)
             base == CASE c = "e'" -> "e"
                       [] c = "O'" -> "O"
                       [] OTHER -> c
         IN  <<base>> \o Unaccent(Tail(s))

\* s.replace(" ", "_"): every single space, one by one
ReplaceSpaces(s) == [i \in DOMAIN s |-> IF s[i] = " " THEN "_" ELSE s[i]]

\* re.sub(r"\s+", "_", s): every whitespace run becomes one underscore
RECURSIVE SubSpaceRuns(_)
SubSpaceRuns(s) ==
    IF s = <<>> THEN <<>>
    ELSE IF IsSpace(Head(s)) THEN <<"_">> \o SubSpaceRuns(LStrip(s))
    ELSE <<Head(s)>> \o SubSpaceRuns(Tail(s))

\* re.sub(r"[^0-9A-Za-z_]", "", s)
KeepWord(s) == SelectSeq(s, IsWord)

\* app.py normalize_gestion_value
normalize_gestion_value(val) == Upper(KeepWord(SubSpaceRuns(Unaccent(Strip(val)))))

\* app3.py normalize_gestion
normalize_gestion(val) == KeepWord(Upper(ReplaceSpaces(Strip(Unaccent(val)))))

(***************************************************************************)
(* Cells, money and rows                                                   *)
(***************************************************************************)
\* what a label column holds where nothing was assigned (pandas NaN)
NaN == "NaN"

\* a cell of a numeric column: either it parses as the number num, or it does
\* not parse (text, an empty cell) and pd.to_numeric(errors="coerce") makes
\* NaN of it
Cell(n) == [parses |-> TRUE, num |-> n]

BadCell == [parses |-> FALSE, num |-> 0]

\* pd.to_numeric(x, errors="coerce").fillna(0)
to_numeric_fillna0(v) == IF v.parses THEN v ELSE Cell(0)

\* pd.to_numeric(x, errors="coerce") == 0: a NaN equals nothing
to_numeric_eq0(v) == v.parses /\ v.num = 0

\* Series.round(2) on thousandths: to the nearest hundredth, a tie going to
\* the even hundredth (numpy rounds half to even)
Round2(x) ==
    LET q == x \div 10
        r == x % 10
    IN  IF r < 5 THEN 10 * q
        ELSE IF r > 5 THEN 10 * (q + 1)
        ELSE IF q % 2 = 0 THEN 10 * q ELSE 10 * (q + 1)

\* df[c] = v on the one row: the column is added when it is new
SetCol(r, c, v) == [x \in DOMAIN r \cup {c} |-> IF x = c THEN v ELSE r[x]]

Max2(a, b) == IF a >= b THEN a ELSE b

Min2(a, b) == IF a <= b THEN a ELSE b

\* the elements of list s that are not columns of r, in list order
MissingFrom(s, r) == LET absent(c) == c \notin DOMAIN r IN SelectSeq(s, absent)

(***************************************************************************)
(* The three revisions, statement by statement                             *)
(***************************************************************************)
\* app.py's statements with the global cap applied before the floor
ProgramApp_CapFirst ==
    <<"validate", "coerce", "potencial", "gestion_key", "pot_used", "pct",
      "eligible", "raw", "materialize", "cap", "floor",
      "rule_a", "rule_b", "rule_c", "trips", "classify", "round">>

\* the statements of app.py's apply_reinvestment in source order
ProgramApp ==
    <<"validate", "coerce", "potencial", "gestion_key", "pot_used", "pct",
      "eligible", "raw", "materialize", "floor", "cap",
      "rule_a", "rule_b", "rule_c", "trips", "classify", "round">>

\* the statements of app2.py's apply_reinvestment in source order
ProgramApp2 ==
    <<"validate", "potencial", "coerce", "eligible", "pct", "materialize",
      "floor", "cap", "rule_c", "trips", "classify", "round">>

\* the statements of app3.py's apply_reinvestment in source order
ProgramApp3 ==
    <<"rename", "wxv", "validate", "coerce", "potencial", "gestion_key",
      "pot_used", "pct", "eligible", "raw", "materialize", "floor", "cap",
      "rule_a", "rule_b", "rule_c", "country_caps", "classify", "round">>

Program(e) ==
    CASE e = "app" -> ProgramApp
      [] e = "app2" -> ProgramApp2
      [] e = "app3" -> ProgramApp3

\* the statement the run is about to execute
Stage == IF pc \in DOMAIN Program(engine) THEN Program(engine)[pc] ELSE "return"

\* the statements already executed
Executed == {Program(engine)[i] : i \in 1..(pc - 1)}

At(stage) == result = "running" /\ Stage = stage

\* one statement done: the configuration is read-only during a run
Advance(r) ==
    /\ row' = r
    /\ pc' = pc + 1
    /\ UNCHANGED <<engine, pct_dict, min_wallet, cap, country_caps, result, error>>
    /\ UNCHANGED around

(***************************************************************************)
(* Column names                                                            *)
(***************************************************************************)
\* the characters of a column name
Text(h) ==
    CASE h = "Gestion" -> <<"G","e","s","t","i","o","n">>
      [] h = "Pais" -> <<"P","a","i","s">>
      [] h = "NG" -> <<"N","G">>
      [] h = "Visitas" -> <<"V","i","s","i","t","a","s">>
      [] h = "TeoricoNeto" -> <<"T","e","o","r","i","c","o","N","e","t","o">>
      [] h = "WinTotalNeto" -> <<"W","i","n","T","o","t","a","l","N","e","t","o">>
      [] h = "WxV" -> <<"W","x","V">>
      [] h = "Visitas_Est" -> <<"V","i","s","i","t","a","s","_","E","s","t">>
      [] h = "Trip_Esperado" -> <<"T","r","i","p","_","E","s","p","e","r","a","d","o">>
      [] h = "Pot_Trip" -> <<"P","o","t","_","T","r","i","p">>
      [] h = "Pot_Visita" -> <<"P","o","t","_","V","i","s","i","t","a">>
      [] h = "Pot_xVisita" -> <<"P","o","t","_","x","V","i","s","i","t","a">>
      [] h = "pot_xvisita" -> <<"p","o","t","_","x","v","i","s","i","t","a">>
      [] h = "prom_teoneto_trip" ->
             <<"p","r","o","m","_","t","e","o","n","e","t","o","_","t","r","i","p">>
      [] h = "prom_winneto_trip" ->
             <<"p","r","o","m","_","w","i","n","n","e","t","o","_","t","r","i","p">>
      [] h = "prom_visita_trip" ->
             <<"p","r","o","m","_","v","i","s","i","t","a","_","t","r","i","p">>
      [] h = "pot_trip" -> <<"p","o","t","_","t","r","i","p">>
      [] h = "Comps" -> <<"C","o","m","p","s">>
      [] h = "Promo2" -> <<"P","r","o","m","o","2">>
      [] h = "MaxCategHist" -> <<"M","a","x","C","a","t","e","g","H","i","s","t">>
      [] h = "gestion" -> <<"g","e","s","t","i","o","n">>
      [] h = "pais" -> <<"p","a","i","s">>
      [] h = "ng" -> <<"n","g">>
      [] h = "teoriconeto" -> <<"t","e","o","r","i","c","o","n","e","t","o">>
      [] h = "wintotalneto" -> <<"w","i","n","t","o","t","a","l","n","e","t","o">>
      [] h = "visitas" -> <<"v","i","s","i","t","a","s">>
      [] h = "pot_visita" -> <<"p","o","t","_","v","i","s","i","t","a">>
      [] h = "promo2" -> <<"p","r","o","m","o","2">>
      [] h = "comps" -> <<"c","o","m","p","s">>

\* app.py required_cols
RequiredApp ==
    <<"Gestion", "NG", "Visitas", "TeoricoNeto", "WinTotalNeto", "WxV",
      "Visitas_Est", "Trip_Esperado", "Pais",
      "Pot_Trip", "Pot_Visita", "Comps", "Promo2", "MaxCategHist">>

\* app2.py required_cols
RequiredApp2 ==
    <<"Gestion", "NG", "Visitas", "TeoricoNeto", "WinTotalNeto", "WxV",
      "Visitas_Est", "Trip_Esperado", "Pais">>

\* app3.py required
RequiredApp3 ==
    <<"Gestion", "Pais", "NG", "TeoricoNeto", "WinTotalNeto", "Visitas",
      "Pot_Trip", "Pot_Visita", "Promo2", "Comps">>

Required(e) ==
    CASE e = "app" -> RequiredApp
      [] e = "app2" -> RequiredApp2
      [] e = "app3" -> RequiredApp3

\* app.py num_cols
NumColsApp ==
    <<"TeoricoNeto", "WinTotalNeto", "WxV", "Visitas", "Visitas_Est",
      "Trip_Esperado", "Pot_Trip", "Pot_Visita", "Comps", "Promo2">>

\* app2.py numeric_cols
NumColsApp2 ==
    <<"Potencial", "Visitas", "TeoricoNeto", "WinTotalNeto", "WxV",
      "Visitas_Est", "Trip_Esperado">>

\* app3.py num_cols
NumColsApp3 ==
    <<"TeoricoNeto", "WinTotalNeto", "Visitas", "Pot_Trip", "Pot_Visita",
      "WxV", "Promo2", "Comps">>

NumCols(e) ==
    CASE e = "app" -> NumColsApp
      [] e = "app2" -> NumColsApp2
      [] e = "app3" -> NumColsApp3

\* app3.py rename_columns: its mapping, in the order the loop visits it
RenameMapping ==
    << [key |-> "pot_xvisita", val |-> "Pot_Visita"],
       [key |-> "prom_teoneto_trip", val |-> "TeoricoNeto"],
       [key |-> "prom_winneto_trip", val |-> "WinTotalNeto"],
       [key |-> "prom_visita_trip", val |-> "Visitas"],
       [key |-> "pot_trip", val |-> "Pot_Trip"] >>

\* df.rename(columns={old: new}) on the one row
RenameCol(r, old, new) ==
    IF old \notin DOMAIN r THEN r
    ELSE [x \in (DOMAIN r \ {old}) \cup {new} |-> IF x = new THEN r[old] ELSE r[x]]

\* app3.py rename_columns: cols maps each column's lower-cased name to the
\* column, and every mapping key found in cols renames that column
RECURSIVE RenameFrom(_, _, _)
RenameFrom(r, cols, i) ==
    IF i > Len(RenameMapping) THEN r
    ELSE LET m == RenameMapping[i]
             hit == {c \in cols : Lower(Text(c)) = Text(m.key)}
         IN  IF hit = {} THEN RenameFrom(r, cols, i + 1)
             ELSE RenameFrom(RenameCol(r, CHOOSE c \in hit : TRUE, m.val), cols, i + 1)

rename_columns(r) == RenameFrom(r, DOMAIN r, 1)

\* for c in num_cols: df[c] = pd.to_numeric(df[c], errors="coerce").fillna(0)
RECURSIVE CoerceFrom(_, _, _)
CoerceFrom(r, cs, i) ==
    IF i > Len(cs) THEN r
    ELSE IF cs[i] \in DOMAIN r
         THEN CoerceFrom(SetCol(r, cs[i], to_numeric_fillna0(r[cs[i]])), cs, i + 1)
         ELSE CoerceFrom(r, cs, i + 1)

CoerceNumeric(r, e) == CoerceFrom(r, NumCols(e), 1)

\* df["Potencial"] = df[["TeoricoNeto", "WinTotalNeto"]].max(axis=1); app2.py
\* coerces the two columns in the same breath
Potencial(r, e) ==
    LET r1 == IF e = "app2" THEN CoerceFrom(r, <<"TeoricoNeto", "WinTotalNeto">>, 1) ELSE r
    IN  SetCol(r1, "Potencial", Cell(Max2(r1["TeoricoNeto"].num, r1["WinTotalNeto"].num)))

(***************************************************************************)
(* The statements on the row                                               *)
(***************************************************************************)
URY_LOCAL == <<"U","R","Y","_","L","O","C","A","L">>

URY_RESTO == <<"U","R","Y","_","R","E","S","T","O">>

NO_APLICA == "NO APLICA"

UNDER_HALF == "<50%"

HALF_TO_FULL == "50-100%"

\* the comps amount above which a row is excluded, in whole units
CompsLimit == 200

\* whole units to thousandths
Money(n) == n * 1000

\* the normalizer each revision applies to Gestion values and to pct_dict keys
NormalizeFor(e, val) ==
    IF e = "app3" THEN normalize_gestion(val) ELSE normalize_gestion_value(val)

\* df["GESTION_KEY"] = df["Gestion"].apply(normalize...)
GestionKey(r, e) == SetCol(r, "GESTION_KEY", NormalizeFor(e, r["Gestion"]))

\* select_pot with URY_LOCAL left out of the per-visit set
select_pot_RestoOnly(r) ==
    IF r["GESTION_KEY"] = URY_RESTO THEN r["Pot_Visita"].num ELSE r["Pot_Trip"].num

\* select_pot (app.py), choose_pot (app3.py)
select_pot(r) ==
    IF r["GESTION_KEY"] \in {URY_LOCAL, URY_RESTO} THEN r["Pot_Visita"].num
    ELSE r["Pot_Trip"].num

\* Series.map(d).fillna(0): the value of key k in the list of items d, a later
\* item with the same key having replaced an earlier one; 0 when k is no key
Lookup(d, k) ==
    LET hits == {i \in DOMAIN d : d[i].key = k}
    IN  IF hits = {} THEN 0
        ELSE d[CHOOSE i \in hits : \A j \in hits : j <= i].pct

\* pct_norm: pct_dict with every key normalized
PctNorm(d, e) == [i \in DOMAIN d |-> [key |-> NormalizeFor(e, d[i].key), pct |-> d[i].pct]]

\* df["pct"] = ...map(...).fillna(0): app.py and app3.py look GESTION_KEY up in
\* pct_norm, app2.py looks the Gestion cell up in pct_dict as it is
MapPct(r, e, d) ==
    IF e = "app2" THEN SetCol(r, "pct", Lookup(d, r["Gestion"]))
    ELSE SetCol(r, "pct", Lookup(PctNorm(d, e), r["GESTION_KEY"]))

\* df["eligible"] = (pd.to_numeric(df["NG"], errors="coerce")... == 0): app.py
\* and app2.py fill a NaN with 0 first, app3.py compares the NaN itself
InitialEligibility(r, e) ==
    IF e = "app3" THEN SetCol(r, "eligible", to_numeric_eq0(r["NG"]))
    ELSE SetCol(r, "eligible", to_numeric_fillna0(r["NG"]).num = 0)

\* a potential times a percentage, in thousandths
Times(pot, pct) == (pot * pct) \div 100

\* df["reinvestment_raw"] = df["pot_used"] * df["pct"]
RawAmount(r) == SetCol(r, "reinvestment_raw", Times(r["pot_used"], r["pct"]))

\* df["reinvestment"] = 0.0, then the base amount on the eligible rows
Materialize(r, e) ==
    LET base == IF e = "app2" THEN Times(r["Potencial"].num, r["pct"]) ELSE r["reinvestment_raw"]
    IN  SetCol(r, "reinvestment", IF r["eligible"] THEN base ELSE 0)

\* df.loc[eligible_mask & (df["reinvestment"] < min_wallet), "reinvestment"] = min_wallet
Floor(r, mw) ==
    IF r["eligible"] /\ r["reinvestment"] < mw THEN SetCol(r, "reinvestment", mw) ELSE r

\* df.loc[eligible_mask, "reinvestment"] = ....clip(upper=cap)
Cap(r, c) ==
    IF r["eligible"] THEN SetCol(r, "reinvestment", Min2(r["reinvestment"], c)) ELSE r

\* what an exclusion rule does to the row when its mask is hit; app.py and
\* app2.py also write the label, which creates the column
Exclude(r, e, hit) ==
    LET r1 == IF hit THEN SetCol(SetCol(r, "eligible", FALSE), "reinvestment", 0) ELSE r
        old == IF "Rango_Reinv" \in DOMAIN r THEN r["Rango_Reinv"] ELSE NaN
    IN  IF e = "app3" THEN r1
        ELSE SetCol(r1, "Rango_Reinv", IF hit THEN NO_APLICA ELSE old)

\* rule a with >= in place of >
RuleAMask_AtOrAbove(r) == r["Comps"].num >= Money(CompsLimit)

\* 1) Comps > 200 -> not eligible
RuleAMask(r) == r["Comps"].num > Money(CompsLimit)

RuleA(r, e) == Exclude(r, e, RuleAMask(r))

\* rule b with < in place of <=
RuleBMask_StrictlyBelow(r) == r["reinvestment"] < r["Promo2"].num

\* 2) Reinvestment must be > Promo2, otherwise not eligible
RuleBMask(r) == r["reinvestment"] <= r["Promo2"].num

RuleB(r, e) == Exclude(r, e, RuleBMask(r))

\* 3) Reinvestment > WxV -> not eligible
RuleCMask(r) == r["reinvestment"] > r["WxV"].num

\* rule c assigning the whole eligible column from its comparison
RuleC_Reassigns(r, e) ==
    SetCol(Exclude(r, e, RuleCMask(r)), "eligible", ~RuleCMask(r))

RuleC(r, e) == Exclude(r, e, RuleCMask(r))

\* app3.py apply_caps: the first entry of country_caps whose key matches the
\* row's Pais clamps the amount, whatever the row's eligibility
CapsKey(s) == Upper(ReplaceSpaces(s))

apply_caps(r, caps) ==
    LET pais == Strip(r["Pais"])
        hits == {i \in DOMAIN caps : CapsKey(caps[i].key) = CapsKey(pais)}
        reinv == r["reinvestment"]
    IN  IF hits = {} THEN reinv
        ELSE LET rule == caps[CHOOSE i \in hits : \A j \in hits : i <= j]
             IN  Min2(Max2(reinv, rule.min), rule.max)

CountryCaps(r, caps) == SetCol(r, "reinvestment", apply_caps(r, caps))

\* df["Trips_Calc"] = np.where(Visitas > 0, Visitas / 3.0, Visitas_Est / 3.0),
\* kept as the number of visits that is divided by 3
Trips(r) ==
    SetCol(r, "Trips_Calc",
           [thirds |-> IF r["Visitas"].num > 0 THEN r["Visitas"].num
                       ELSE r["Visitas_Est"].num])

\* the classification with the half boundary strict: an amount of exactly
\* half the ceiling falls in the upper band
Rango_StrictHalf(reinv, wxv, e) ==
    LET guard == IF e = "app3" THEN TRUE ELSE wxv > 0
    IN  IF reinv = 0 THEN NO_APLICA
        ELSE IF guard /\ 2 * reinv < wxv THEN UNDER_HALF
        ELSE IF guard /\ reinv <= wxv THEN HALF_TO_FULL
        ELSE NO_APLICA

\* np.select(conditions, choices, default="NO APLICA"): the first condition
\* that holds decides; app3.py has no WxV > 0 guard
Rango(reinv, wxv, e) ==
    LET guard == IF e = "app3" THEN TRUE ELSE wxv > 0
    IN  IF reinv = 0 THEN NO_APLICA
        ELSE IF guard /\ 2 * reinv <= wxv THEN UNDER_HALF
        ELSE IF guard /\ reinv <= wxv THEN HALF_TO_FULL
        ELSE NO_APLICA

Classify(r, e) == SetCol(r, "Rango_Reinv", Rango(r["reinvestment"], r["WxV"].num, e))

\* the closing round(2): app.py rounds three columns, the others one
RoundMoney(r, e) ==
    LET r1 == SetCol(r, "reinvestment", Round2(r["reinvestment"]))
    IN  IF e = "app"
        THEN SetCol(SetCol(r1, "pot_used", Round2(r1["pot_used"])),
                    "reinvestment_raw", Round2(r1["reinvestment_raw"]))
        ELSE r1

(***************************************************************************)
(* Inputs                                                                  *)
(***************************************************************************)
\* potentials and wallet ceilings run over 0.004, 0.008, ... up to this many steps
MaxPot == 2

\* comps amounts run from the limit to this many thousandths above it
MaxCompsOver == 1

ARG == <<"A","R","G">>

PotValues == {Cell(4 * k) : k \in 1..MaxPot}

CompsValues == {Cell(Money(CompsLimit) + k) : k \in 0..MaxCompsOver}

\* Gestion cells: a mapped label, two spellings of one label, the other
\* per-visit label, an unmapped one
GestionValues ==
    { ARG,
      <<"U","r","y"," ","L","o","c","a","l">>,
      <<"U","R","Y","_","L","o","c","a","l">>,
      <<"U","R","Y"," ","R","e","s","t","o">>,
      <<"X","Y","Z">> }

\* Pais cells
PaisValues == { <<"a","r","g">>, <<"B","R","A">> }

\* NG cells: 0, a nonzero flag, a cell that does not parse
NGValues == {Cell(0), Cell(1), BadCell}

\* Promo2 cells: one that does not parse (coerced to 0) and 0.005
Promo2Values == {BadCell, Cell(5)}

\* WxV cells of app.py and app2.py
WxVValues == {Cell(0)} \cup PotValues

\* pct_dict, as the list of its items; percentages in percent
PctDicts ==
    { << [key |-> ARG, pct |-> 100],
         [key |-> <<"U","r","y"," ","L","o","c","a","l">>, pct |-> 50],
         [key |-> <<"U","R","Y"," ","R","e","s","t","o">>, pct |-> 50] >>,
      << [key |-> ARG, pct |-> 50],
         [key |-> <<"U","R","Y","_","L","o","c","a","l">>, pct |-> 100] >> }

MinWalletValues == {0, 6}

CapValues == {5, 20}

\* country_caps, as the list of its items: none, one that raises, one that lowers
CountryCapsValues ==
    { <<>>,
      << [key |-> ARG, min |-> 6, max |-> 20] >>,
      << [key |-> ARG, min |-> 0, max |-> 3] >> }

\* a row of the uploaded table with every column the revisions ask for
FullRow(g, pais, ng, pt, pv, comps, promo2, wxv, teo, win) ==
    "Gestion" :> g @@ "Pais" :> pais @@ "NG" :> ng @@ "Visitas" :> Cell(0) @@
    "Visitas_Est" :> Cell(3) @@ "Trip_Esperado" :> Cell(0) @@ "TeoricoNeto" :> teo @@
    "WinTotalNeto" :> win @@ "WxV" :> wxv @@ "Pot_Trip" :> pt @@
    "Pot_Visita" :> pv @@ "Comps" :> comps @@ "Promo2" :> promo2 @@
    "MaxCategHist" :> "A"

Restrict(r, cs) == [x \in cs |-> r[x]]

\* the row without the columns in gone
Without(r, gone) == Restrict(r, DOMAIN r \ gone)

Zero == Cell(0)

DefaultRow ==
    FullRow(ARG, ARG, Zero, Cell(8), Cell(8), Cell(Money(CompsLimit)), Zero, Cell(8), Zero, Zero)

AppRows ==
    { FullRow(g, ARG, ng, pt, pv, comps, promo2, wxv, Zero, Zero) :
        g \in GestionValues, ng \in NGValues, pt \in PotValues, pv \in PotValues,
        comps \in CompsValues, promo2 \in Promo2Values, wxv \in WxVValues }

App2Rows ==
    { Restrict(FullRow(g, ARG, ng, Zero, Zero, Zero, Zero, wxv, teo, win),
               Range(RequiredApp2)) :
        g \in GestionValues, ng \in NGValues, wxv \in WxVValues,
        teo \in PotValues, win \in {Cell(-4), Cell(8)} }

App3Rows ==
    { Restrict(FullRow(g, pais, ng, pt, pv, comps, promo2, Zero, Zero, Zero),
               Range(RequiredApp3)) :
        g \in GestionValues, pais \in PaisValues, ng \in NGValues,
        pt \in PotValues, pv \in PotValues,
        comps \in CompsValues, promo2 \in Promo2Values }

\* tables that lack columns: every nonempty subset of three required columns
MissingChoices(e) ==
    SUBSET (IF e = "app2" THEN {"Gestion", "WxV", "Pais"}
            ELSE {"Gestion", "Pot_Visita", "Comps"}) \ {{}}

ShortRows(e) ==
    { Without(Restrict(DefaultRow, Range(Required(e))), gone) : gone \in MissingChoices(e) }

\* app3.py tables whose per-visit potential column carries its export name
AliasRows ==
    { RenameCol(r, "Pot_Visita", "Pot_xVisita") :
        r \in ShortRows("app3") \cup {Restrict(DefaultRow, Range(RequiredApp3))} }

\* no upload and no summary in a run of apply_reinvestment alone
Apart == columns = <<>> /\ table = <<>> /\ kpis = <<>>

Init ==
    /\ pc = 1
    /\ result = "running"
    /\ error = <<>>
    /\ Apart
    /\ pct_dict \in PctDicts
    /\ min_wallet \in MinWalletValues
    /\ cap \in CapValues
    /\ \/ engine = "app" /\ row \in AppRows \cup ShortRows("app") /\ country_caps = <<>>
       \/ engine = "app2" /\ row \in App2Rows \cup ShortRows("app2") /\ country_caps = <<>>
       \/ /\ engine = "app3"
          /\ row \in App3Rows \cup ShortRows("app3") \cup AliasRows
          /\ country_caps \in CountryCapsValues

(***************************************************************************)
(* Actions: one per statement                                              *)
(***************************************************************************)
\* the run ends without a table: st.error(...) and return None
Fail(names) ==
    /\ error' = names
    /\ result' = "None"
    /\ UNCHANGED <<engine, pc, row, pct_dict, min_wallet, cap, country_caps>>
    /\ UNCHANGED around

\* df = rename_columns(df)
Rename == At("rename") /\ Advance(rename_columns(row))

\* app3.py: WxV is the per-visit potential, or the run ends
WxVFromPotVisita ==
    /\ At("wxv")
    /\ IF "Pot_Visita" \in DOMAIN row
       THEN Advance(SetCol(row, "WxV", to_numeric_fillna0(row["Pot_Visita"])))
       ELSE Fail(<<"Pot_xVisita", "Pot_Visita">>)

\* missing = [c for c in required_cols if c not in df.columns]
Validate ==
    /\ At("validate")
    /\ LET missing == MissingFrom(Required(engine), row)
       IN  IF missing # <<>> THEN Fail(missing) ELSE Advance(row)

Coerce == At("coerce") /\ Advance(CoerceNumeric(row, engine))

ComputePotencial == At("potencial") /\ Advance(Potencial(row, engine))

ComputeGestionKey == At("gestion_key") /\ Advance(GestionKey(row, engine))

SelectPot == At("pot_used") /\ Advance(SetCol(row, "pot_used", select_pot(row)))

ComputePct == At("pct") /\ Advance(MapPct(row, engine, pct_dict))

ComputeEligible == At("eligible") /\ Advance(InitialEligibility(row, engine))

ComputeRaw == At("raw") /\ Advance(RawAmount(row))

ComputeBase == At("materialize") /\ Advance(Materialize(row, engine))

ApplyFloor == At("floor") /\ Advance(Floor(row, min_wallet))

ApplyCap == At("cap") /\ Advance(Cap(row, cap))

ApplyRuleA == At("rule_a") /\ Advance(RuleA(row, engine))

ApplyRuleB == At("rule_b") /\ Advance(RuleB(row, engine))

ApplyRuleC == At("rule_c") /\ Advance(RuleC(row, engine))

ApplyCountryCaps == At("country_caps") /\ Advance(CountryCaps(row, country_caps))

ComputeTrips == At("trips") /\ Advance(Trips(row))

ComputeRango == At("classify") /\ Advance(Classify(row, engine))

RoundColumns == At("round") /\ Advance(RoundMoney(row, engine))

\* return df
Return ==
    /\ At("return")
    /\ result' = "df"
    /\ UNCHANGED <<engine, pc, row, pct_dict, min_wallet, cap, country_caps, error>>
    /\ UNCHANGED around

Next ==
    \/ Rename
    \/ WxVFromPotVisita
    \/ Validate
    \/ Coerce
    \/ ComputePotencial
    \/ ComputeGestionKey
    \/ SelectPot
    \/ ComputePct
    \/ ComputeEligible
    \/ ComputeRaw
    \/ ComputeBase
    \/ ApplyFloor
    \/ ApplyCap
    \/ ApplyRuleA
    \/ ApplyRuleB
    \/ ApplyRuleC
    \/ ApplyCountryCaps
    \/ ComputeTrips
    \/ ComputeRango
    \/ RoundColumns
    \/ Return

Spec == Init /\ [][Next]_vars

(***************************************************************************)
(* Properties                                                              *)
(***************************************************************************)
\* the run returned its table
Returned == result = "df"

Col(c) == row[c]

\* the override of country_caps that matches the row's Pais, if any
MatchingCaps ==
    {i \in DOMAIN country_caps : CapsKey(country_caps[i].key) = CapsKey(Strip(Col("Pais")))}

\* C1: in the returned table a row that is not eligible has amount 0 and the
\* label NO APLICA, whatever the configuration and the country overrides.
C1_IneligibleIsZeroAndNotApplicable ==
    (Returned /\ ~Col("eligible"))
        => (Col("reinvestment") = 0 /\ Col("Rango_Reinv") = NO_APLICA)

\* the ceiling C2 gives a row: the global cap, tightened by the max of a
\* matching override
C2_Ceiling ==
    IF MatchingCaps = {} THEN cap
    ELSE Min2(cap, country_caps[CHOOSE i \in MatchingCaps : \A j \in MatchingCaps : i <= j].max)

\* C2: in the returned table an eligible row's amount lies between 0 and its
\* ceiling, and a row that is not eligible has amount 0.
C2_BoundedAmount ==
    Returned =>
        IF Col("eligible")
        THEN 0 <= Col("reinvestment") /\ Col("reinvestment") <= C2_Ceiling
        ELSE Col("reinvestment") = 0

\* C3: in the returned table the label is NO APLICA exactly when the rounded
\* amount is 0.
C3_NotApplicableIffZero ==
    Returned => (Col("Rango_Reinv") = NO_APLICA <=> Col("reinvestment") = 0)

\* C4: from one statement to the next a row that is not eligible stays not
\* eligible: eligibility only ever goes from true to false.
C4_MonotonicExclusion ==
    [][("eligible" \in DOMAIN row /\ ~row["eligible"]) => ~row'["eligible"]]_vars

\* C4 witness: a row that started eligible, was excluded by a rule, and went
\* through every later statement.
C4_Witness ==
    Returned /\ to_numeric_eq0(Col("NG")) /\ ~Col("eligible")

\* C5: a row whose NG flag is nonzero is returned not eligible and with
\* amount 0, whatever its other cells and the configuration.
C5_NonManageableExcluded ==
    (Returned /\ Col("NG").parses /\ Col("NG").num # 0)
        => (~Col("eligible") /\ Col("reinvestment") = 0)

\* C6: a run on a table that lacks required columns ends without a table, and
\* its error names every required column the table lacks.
C6_ErrorNamesEveryMissingColumn ==
    /\ (result = "running" /\ Stage \notin {"rename", "wxv", "validate"})
           => MissingFrom(Required(engine), row) = <<>>
    /\ result = "None"
           => \A c \in Range(Required(engine)) : c \notin DOMAIN row => c \in Range(error)

\* C7: the country override never changes an amount once an exclusion rule
\* has run: it comes after the global cap and before rules a, b and c.
C7_OverrideBeforeExclusionRules ==
    [][(Stage = "country_caps" /\ row'["reinvestment"] # row["reinvestment"])
          => ("cap" \in Executed /\ Executed \cap {"rule_a", "rule_b", "rule_c"} = {})]_vars

\* what rule a does to a row under comps threshold t (in whole units): above
\* it the row is excluded, up to it eligibility and amount are left alone
RuleAFollows(t) ==
    Stage = "rule_a" =>
        IF row["Comps"].num > Money(t)
        THEN ~row'["eligible"] /\ row'["reinvestment"] = 0
        ELSE /\ row'["eligible"] = row["eligible"]
             /\ row'["reinvestment"] = row["reinvestment"]

\* the comps thresholds a run's configuration may ask for
ConfigCompsThresholds == {200, 2000}

C9_PercentageByNormalizedKey ==
    "pct" \in DOMAIN row =>
        LET seg == NormalizeFor(engine, Col("Gestion"))
            same == {i \in DOMAIN pct_dict : NormalizeFor(engine, pct_dict[i].key) = seg}
        IN  /\ \A i \in same : Col("pct") = pct_dict[i].pct
            /\ same = {} => Col("pct") = 0

\* the potential C10 gives a row: per visit for URY_LOCAL and URY_RESTO, per
\* trip for every other key
C10_Selected ==
    IF NormalizeFor(engine, Col("Gestion")) \in {URY_LOCAL, URY_RESTO}
    THEN Col("Pot_Visita").num
    ELSE Col("Pot_Trip").num

\* C10 as stated: pot_used equals the selected potential.
C10_PotUsedIsSelected ==
    "pot_used" \in DOMAIN row => Col("pot_used") = C10_Selected

\* C10 as amended: pot_used equals the selected potential from its selection
\* on, and in the table app.py returns it is that potential rounded to 2
\* decimals.
C10_PotUsedIsSelectedUntilRounded ==
    "pot_used" \in DOMAIN row =>
        IF engine = "app" /\ "round" \in Executed
        THEN Col("pot_used") = Round2(C10_Selected)
        ELSE Col("pot_used") = C10_Selected

\* C10 witness: a returned URY_LOCAL row whose two potentials differ and whose
\* per-visit potential is not a whole number of hundredths.
C10_Witness ==
    /\ Returned /\ engine = "app"
    /\ Col("GESTION_KEY") = URY_LOCAL
    /\ Col("Pot_Visita") # Col("Pot_Trip")
    /\ Col("pot_used") # C10_Selected

(***************************************************************************)
(* The classification step on its own                                      *)
(***************************************************************************)
\* amounts given to the classification run over 0 .. MaxAmount thousandths
MaxAmount == 6

\* wallet ceilings given to the classification run over -1 .. MaxCeiling
MaxCeiling == 6

\* the position of a statement in a revision's statement list
StageIndex(e, stage) == CHOOSE i \in 1..Len(Program(e)) : Program(e)[i] = stage

\* the table as it stands when the classification is computed: the amount is
\* never negative there (floor, caps and overrides are non-negative settings),
\* the ceiling is whatever the file holds
InitClassify ==
    /\ engine \in {"app", "app2", "app3"}
    /\ pc = StageIndex(engine, "classify")
    /\ \E a \in 0..MaxAmount, w \in -1..MaxCeiling :
           row = [reinvestment |-> a, WxV |-> Cell(w)]
    /\ pct_dict = <<>>
    /\ min_wallet = 0
    /\ cap = 0
    /\ country_caps = <<>>
    /\ result = "running"
    /\ error = <<>>
    /\ Apart

SpecClassify == InitClassify /\ [][ComputeRango]_vars

Classified == "Rango_Reinv" \in DOMAIN row

\* C11: once the classification has run, the label is NO APLICA for amount 0,
\* "<50%" for 0 < A <= W/2 with W > 0 (A = W/2 included), "50-100%" for
\* W/2 < A <= W with W > 0 (A = W included), and NO APLICA in every other
\* case (W <= 0 with a nonzero amount, A > W), in all three revisions.
C11_ClassificationBands ==
    LET a == Col("reinvestment")
        w == Col("WxV").num
    IN  Classified =>
            Col("Rango_Reinv") =
                IF a = 0 THEN NO_APLICA
                ELSE IF w > 0 /\ 0 < a /\ 2 * a <= w THEN UNDER_HALF
                ELSE IF w > 0 /\ w < 2 * a /\ a <= w THEN HALF_TO_FULL
                ELSE NO_APLICA

\* an amount of exactly half a positive ceiling, classified in the lower
\* band by the revision without the WxV > 0 guard
C11_Witness ==
    /\ Classified
    /\ engine = "app3"
    /\ Col("WxV").num > 0
    /\ 2 * Col("reinvestment") = Col("WxV").num
    /\ Col("Rango_Reinv") = UNDER_HALF

(***************************************************************************)
(* The categorical normalizers on their own                                *)
(***************************************************************************)
\* Gestion values given to the normalizers have at most this many characters
MaxLen == 3

\* a letter, a space, an underscore and a character outside [0-9A-Za-z_]
GestionAlphabet == {"a", " ", "_", "-"}

RECURSIVE StringsUpTo(_)
StringsUpTo(n) ==
    IF n = 0 THEN {<<>>}
    ELSE LET shorter == StringsUpTo(n - 1)
         IN  shorter \cup {Append(s, c) : s \in shorter, c \in GestionAlphabet}

\* a frame whose Gestion cell is any short string, at the statement that
\* computes GESTION_KEY (app.py 101, app3.py 74)
InitNormalize ==
    /\ engine \in {"app", "app3"}
    /\ pc = StageIndex(engine, "gestion_key")
    /\ \E s \in StringsUpTo(MaxLen) : row = [Gestion |-> s]
    /\ pct_dict = <<>>
    /\ min_wallet = 0
    /\ cap = 0
    /\ country_caps = <<>>
    /\ result = "running"
    /\ error = <<>>
    /\ Apart

SpecNormalize == InitNormalize /\ [][ComputeGestionKey]_vars

\* C12: the key a normalizer returns is uppercase, made only of [0-9A-Z_],
\* has no two consecutive underscores and no leading or trailing underscore.
C12_KeyIsWellFormed ==
    "GESTION_KEY" \in DOMAIN row =>
        LET k == Col("GESTION_KEY")
        IN  /\ \A i \in DOMAIN k : k[i] \in Range(Uppers) \cup Digits \cup {"_"}
            /\ \A i \in DOMAIN k : i > 1 => ~(k[i - 1] = "_" /\ k[i] = "_")
            /\ k # <<>> => (k[1] # "_" /\ k[Len(k)] # "_")

(***************************************************************************)
(* The KPI summary of app.py and app2.py                                   *)
(***************************************************************************)
\* result tables given to the summary have at most this many records
MaxRows == 2

\* a cell of a text column of the result table: a value, or no value (NaN),
\* which groupby leaves out of every group
Label(s) == [isna |-> FALSE, text |-> s]

NoLabel == [isna |-> TRUE, text |-> <<>>]

RECURSIVE SeriesSum(_)
\* Series.sum() of a list of amounts
SeriesSum(s) == IF s = <<>> THEN 0 ELSE Head(s) + SeriesSum(Tail(s))

\* df[col] as a list
Column(t, c) == [i \in DOMAIN t |-> t[i][c]]

\* a grouping that keeps the first amount of each group and not the sum
groupby_First(t, key) ==
    LET keys == {t[i][key].text : i \in {j \in DOMAIN t : ~t[j][key].isna}}
        group(k) == SelectSeq(t, LAMBDA r : ~r[key].isna /\ r[key].text = k)
    IN  [k \in keys |-> Head(Column(group(k), "reinvestment"))]

\* df.groupby(key)["reinvestment"].sum(): one entry per distinct value of the
\* key column, records with no value in that column dropped
groupby_sum(t, key) ==
    LET keys == {t[i][key].text : i \in {j \in DOMAIN t : ~t[j][key].isna}}
        group(k) == SelectSeq(t, LAMBDA r : ~r[key].isna /\ r[key].text = k)
    IN  [k \in keys |-> SeriesSum(Column(group(k), "reinvestment"))]

RECURSIVE GroupTotals(_)
\* the sum of the reinvestment column of a summary table
GroupTotals(g) ==
    IF DOMAIN g = {} THEN 0
    ELSE LET k == CHOOSE x \in DOMAIN g : TRUE
         IN  g[k] + GroupTotals([x \in DOMAIN g \ {k} |-> g[x]])

\* the records of a result table as the summary reads them: country, segment
\* and the rounded amount in thousandths
KpiRecords ==
    [Pais : {Label(p) : p \in PaisValues} \cup {NoLabel},
     Gestion : {Label(ARG), Label(URY_LOCAL), NoLabel},
     reinvestment : {0, 10, 20}]

RECURSIVE TablesUpTo(_)
TablesUpTo(n) ==
    IF n = 0 THEN {<<>>}
    ELSE LET shorter == TablesUpTo(n - 1)
         IN  shorter \cup {Append(t, r) : t \in shorter, r \in KpiRecords}

\* apply_reinvestment has returned df_result; the summary has not run yet
InitSummary ==
    /\ engine \in {"app", "app2"}
    /\ pc = Len(Program(engine)) + 1
    /\ row = <<>>
    /\ pct_dict = <<>>
    /\ min_wallet = 0
    /\ cap = 0
    /\ country_caps = <<>>
    /\ result = "df"
    /\ error = <<>>
    /\ columns = <<>>
    /\ table \in TablesUpTo(MaxRows)
    /\ kpis = <<>>

\* the Summary KPIs block: the overall total and the two grouped tables
Summarize ==
    /\ result = "df"
    /\ DOMAIN kpis = {}
    /\ kpis' = [total_reinv |-> SeriesSum(Column(table, "reinvestment")),
                kpi_pais |-> groupby_sum(table, "Pais"),
                kpi_gestion |-> groupby_sum(table, "Gestion")]
    /\ UNCHANGED <<engine, pc, row, pct_dict, min_wallet, cap, country_caps,
                   result, error, columns, table>>

SpecSummary == InitSummary /\ [][Summarize]_vars

Summarized == "total_reinv" \in DOMAIN kpis

\* C13: when every record of the result table has a country value, the
\* per-country totals add up to the overall total of the amounts; likewise the
\* per-segment totals when every record has a segment value.
C13_AggregateConservation ==
    Summarized =>
        /\ (\A i \in DOMAIN table : ~table[i]["Pais"].isna)
               => GroupTotals(kpis["kpi_pais"]) = kpis["total_reinv"]
        /\ (\A i \in DOMAIN table : ~table[i]["Gestion"].isna)
               => GroupTotals(kpis["kpi_gestion"]) = kpis["total_reinv"]

\* a summary of two records of different countries and segments, each with a
\* nonzero amount
C13_Witness ==
    /\ Summarized
    /\ Len(table) = 2
    /\ \A i \in DOMAIN table :
           ~table[i]["Pais"].isna /\ ~table[i]["Gestion"].isna
               /\ table[i]["reinvestment"] > 0
    /\ table[1]["Pais"] # table[2]["Pais"]
    /\ table[1]["Gestion"] # table[2]["Gestion"]
    /\ kpis["total_reinv"] = 30

(***************************************************************************)
(* Eligibility and amount in app.py's output                               *)
(***************************************************************************)
\* the amount before the exclusion rules, from the columns of the row:
\* the selected potential times the percentage, floored, then capped
PreExclusionAmount == Min2(Max2(Times(C10_Selected, Col("pct")), min_wallet), cap)

\* C14: in app.py's output a row is eligible exactly when its NG flag is 0,
\* its Comps is at most 200, its pre-exclusion amount P is strictly above
\* Promo2 and P is at most WxV; an eligible row's amount is P until the
\* closing round(2) and P rounded to cents from then on.
C14_EligibleIffFourConditions ==
    (engine = "app" /\ "rule_c" \in Executed) =>
        LET P == PreExclusionAmount
        IN  /\ Col("eligible") <=>
                   /\ to_numeric_fillna0(Col("NG")).num = 0
                   /\ Col("Comps").num <= Money(CompsLimit)
                   /\ P > Col("Promo2").num
                   /\ P <= Col("WxV").num
            /\ (Col("eligible") /\ "round" \notin Executed) => Col("reinvestment") = P
            /\ (Col("eligible") /\ "round" \in Executed) => Col("reinvestment") = Round2(P)

\* an eligible row of app.py's output whose amount was floored, capped and
\* then rounded, with Promo2 set
C14_Witness ==
    /\ engine = "app"
    /\ Returned
    /\ Col("eligible")
    /\ Col("Promo2").num > 0
    /\ PreExclusionAmount = 6
    /\ Col("reinvestment") = 10

(***************************************************************************)
(* Duplicate column names in the load pipeline of app.py and app2.py       *)
(***************************************************************************)
\* header lists given to fix_duplicate_columns have at most this many names
MaxCols == 4

\* header names after clean_column_name: two plain names and one that looks
\* like a generated name
HeaderNames == { <<"A">>, <<"A", "_", "2">>, <<"B">> }

RECURSIVE ListsUpTo(_)
ListsUpTo(n) ==
    IF n = 0 THEN {<<>>}
    ELSE LET shorter == ListsUpTo(n - 1)
         IN  shorter \cup {Append(l, h) : l \in shorter, h \in HeaderNames}

DigitChars == <<"0","1","2","3","4","5","6","7","8","9">>

RECURSIVE Decimal(_)
\* str(n) for a natural number
Decimal(n) ==
    IF n < 10 THEN <<DigitChars[n + 1]>>
    ELSE Append(Decimal(n \div 10), DigitChars[(n % 10) + 1])

RECURSIVE DedupeFrom(_, _, _)
\* the loop of fix_duplicate_columns over the remaining names: counts maps the
\* names seen so far to their number of occurrences
DedupeFrom(cols, counts, new_cols) ==
    IF cols = <<>> THEN new_cols
    ELSE LET col == Head(cols)
         IN  IF col \notin DOMAIN counts
             THEN DedupeFrom(Tail(cols),
                             [c \in DOMAIN counts \cup {col} |->
                                  IF c = col THEN 1 ELSE counts[c]],
                             Append(new_cols, col))
             ELSE DedupeFrom(Tail(cols),
                             [counts EXCEPT ![col] = @ + 1],
                             Append(new_cols,
                                    col \o <<"_">> \o Decimal(counts[col] + 1)))

fix_duplicate_columns(cols) == DedupeFrom(cols, <<>>, <<>>)

\* the frame after fix_excel_headers, before the names are made unique
InitLoad ==
    /\ engine \in {"app", "app2"}
    /\ pc = 1
    /\ row = <<>>
    /\ pct_dict = <<>>
    /\ min_wallet = 0
    /\ cap = 0
    /\ country_caps = <<>>
    /\ result = "df_fixed"
    /\ error = <<>>
    /\ columns \in ListsUpTo(MaxCols)
    /\ table = <<>>
    /\ kpis = <<>>

\* df_fixed = fix_duplicate_columns(df_fixed), which ends as df_source
FixDuplicateColumns ==
    /\ result = "df_fixed"
    /\ columns' = fix_duplicate_columns(columns)
    /\ result' = "df_source"
    /\ UNCHANGED <<engine, pc, row, pct_dict, min_wallet, cap, country_caps,
                   error, table, kpis>>

SpecLoad == InitLoad /\ [][FixDuplicateColumns]_vars

\* C15: after fix_duplicate_columns the column names are pairwise distinct.
C15_NamesPairwiseDistinct ==
    result = "df_source" =>
        \A i, j \in DOMAIN columns : i # j => columns[i] # columns[j]

(***************************************************************************)
(* Initial eligibility of a row whose NG cell does not parse                *)
(***************************************************************************)
\* the eligibility statement is the one just executed
JustAssignedEligible ==
    /\ result = "running"
    /\ pc > 1
    /\ Program(engine)[pc - 1] = "eligible"

\* C16: in every revision a row whose NG cell does not parse as a number is
\* treated as NG = 0: it is eligible right after the eligibility statement.
C16_UnparseableFlagIsEligible ==
    (JustAssignedEligible /\ ~Col("NG").parses) => Col("eligible")

(***************************************************************************)
(* The upload pipeline of app3.py                                          *)
(***************************************************************************)
\* re.sub(r"[^0-9A-Za-z_ ]", "", col)
KeepWordOrSpace(s) == SelectSeq(s, LAMBDA c : IsWord(c) \/ c = " ")

RECURSIVE CollapseUnderscores(_)
\* re.sub(r"_+", "_", col)
CollapseUnderscores(s) ==
    IF Len(s) < 2 THEN s
    ELSE IF s[1] = "_" /\ s[2] = "_" THEN CollapseUnderscores(Tail(s))
    ELSE <<Head(s)>> \o CollapseUnderscores(Tail(s))

RECURSIVE StripUnderscores(_)
\* col.strip("_")
StripUnderscores(s) ==
    IF s # <<>> /\ Head(s) = "_" THEN StripUnderscores(Tail(s))
    ELSE IF s # <<>> /\ s[Len(s)] = "_" THEN StripUnderscores(SubSeq(s, 1, Len(s) - 1))
    ELSE s

\* app3.py clean: the header normalizer, lower-casing at the end
clean(col) ==
    Lower(StripUnderscores(CollapseUnderscores(
        ReplaceSpaces(KeepWordOrSpace(Unaccent(Strip(col)))))))

\* the column names the pipeline can meet
HeaderUniverse ==
    {"Gestion", "Pais", "NG", "Visitas", "TeoricoNeto", "WinTotalNeto", "WxV",
     "Visitas_Est", "Trip_Esperado", "Pot_Trip", "Pot_Visita", "Pot_xVisita",
     "pot_xvisita", "prom_teoneto_trip", "prom_winneto_trip", "prom_visita_trip",
     "pot_trip", "Comps", "Promo2", "MaxCategHist",
     "gestion", "pais", "ng", "teoriconeto", "wintotalneto", "visitas",
     "pot_visita", "promo2", "comps"}

\* the column name spelled by a header text
NameOf(t) == CHOOSE h \in HeaderUniverse : Text(h) = t

\* the header row of a file that has app3.py's ten required columns: the
\* names are spelled exactly, except those at the positions in padded, which
\* have a space on each side, and the per-visit potential may go by its alias
FileHeaders(padded, alias) ==
    [i \in DOMAIN RequiredApp3 |->
        LET h == IF alias /\ RequiredApp3[i] = "Pot_Visita" THEN "Pot_xVisita"
                 ELSE RequiredApp3[i]
        IN  IF i \in padded THEN <<" ">> \o Text(h) \o <<" ">> ELSE Text(h)]

ExactHeaders == FileHeaders({}, FALSE)

\* a file has been read into df_raw: its header row and one record
InitUpload ==
    /\ engine = "app3"
    /\ pc = 1
    /\ row = <<>>
    /\ pct_dict \in PctDicts
    /\ min_wallet = 0
    /\ cap = 20
    /\ country_caps = <<>>
    /\ result = "df_raw"
    /\ error = <<>>
    /\ \E padded \in SUBSET DOMAIN RequiredApp3, alias \in BOOLEAN :
           columns = FileHeaders(padded, alias)
    /\ table = <<[i \in DOMAIN RequiredApp3 |-> DefaultRow[RequiredApp3[i]]]>>
    /\ kpis = <<>>

\* df_raw.columns = [clean(c) for c in df_raw.columns], then the button calls
\* apply_reinvestment(df_raw, ...)
CleanHeaders ==
    /\ result = "df_raw"
    /\ row' = [n \in {NameOf(clean(columns[i])) : i \in DOMAIN columns} |->
                  table[1][CHOOSE i \in DOMAIN columns : NameOf(clean(columns[i])) = n]]
    /\ result' = "running"
    /\ UNCHANGED <<engine, pc, pct_dict, min_wallet, cap, country_caps, error>>
    /\ UNCHANGED around

NextUpload == CleanHeaders \/ Rename \/ WxVFromPotVisita \/ Validate

SpecUpload == InitUpload /\ [][NextUpload]_vars

\* C17: a file whose headers are exactly app3.py's required names is not
\* rejected: its run does not end with an error about missing columns.
C17_ExactHeadersPassValidation ==
    columns = ExactHeaders => result # "None"

(***************************************************************************)
(* The amount that enters the exclusion rules                              *)
(***************************************************************************)
\* floor and cap are done and the first exclusion rule is next
EnteringExclusionRules == At("rule_a") /\ {"floor", "cap"} \subseteq Executed

\* C18: in app.py and app3.py the amount entering the exclusion rules is
\* min(max(selected potential * percentage, min_wallet), cap) for a row that
\* is initially eligible (floor first, then cap: cap when min_wallet > cap,
\* min(min_wallet, cap) when the percentage is 0) and 0 for a row that is not.
C18_AmountEnteringExclusionRules ==
    EnteringExclusionRules =>
        Col("reinvestment") = IF Col("eligible") THEN PreExclusionAmount ELSE 0

\* an eligible row floored above the cap: it enters the rules with the cap
C18_Witness ==
    /\ EnteringExclusionRules
    /\ Col("eligible")
    /\ min_wallet > cap
    /\ Times(C10_Selected, Col("pct")) < cap
    /\ Col("reinvestment") = cap

====
